---- MODULE Spec2Model ----
(***************************************************************************)
(* A model of boto3's package-level session helpers (boto3/__init__.py),   *)
(* its utilities (boto3/utils.py) and its resource documenters             *)
(* (boto3/docs/*.py).                                                      *)
(*                                                                         *)
(* Six specifications share the variables:                                *)
(*   Spec       sequential calls of the package-level functions            *)
(*   SpecConc   threads inside client()/resource(), one bytecode-level     *)
(*              step of _get_default_session/setup_default_session a time  *)
(*   SpecUtils  inject_attribute and LazyLoadedWaiterModel                 *)
(*   SpecDocs   BaseDocumenter.__init__ and ActionDocumenter               *)
(*   SpecLazy   lazy_call and the handler it returns                       *)
(*   SpecWriters the documenter functions of boto3/docs, each applied to   *)
(*              inputs drawn from bounded sets                             *)
(***************************************************************************)
EXTENDS Integers, Sequences, FiniteSets, TLC

VARIABLES
    DEFAULT_SESSION,   \* boto3.DEFAULT_SESSION: 0 is None, n > 0 the n-th Session object
    sessions,          \* the Session objects constructed so far; sessions[n] = its kwargs
    last,              \* what the last package-level call did (observable effects)
    loggers,           \* the logging module: name -> [level, handlers]
    pc,                \* SpecConc: where each thread is in client()/resource()
    frame,             \* SpecConc: each thread's locals
    class_attributes,  \* SpecUtils: the dict given to inject_attribute
    ulast,             \* SpecUtils: what the last utils call did
    waiter_model,      \* SpecUtils: the LazyLoadedWaiterModel object (or not constructed)
    bc_calls,          \* SpecUtils: calls received by the botocore session's get_waiter_model
    resource,          \* SpecDocs: the resource handed to the documenter
    documenter,        \* SpecDocs: the ActionDocumenter object (or not constructed)
    section,           \* SpecDocs: the DocumentStructure written by document_actions
    lazy_handler,      \* SpecLazy: the handler returned by lazy_call (or none yet)
    imported,          \* SpecLazy: the modules import_module was called for, in order
    lazy_last,         \* SpecLazy: what the last lazy_call / handler call did
    written            \* SpecWriters: the last documenter function call and its output

sessVars == <<DEFAULT_SESSION, sessions, last, loggers>>
concVars == <<pc, frame>>
utilVars == <<class_attributes, ulast, waiter_model, bc_calls>>
docVars  == <<resource, documenter, section>>
moreVars == <<lazy_handler, imported, lazy_last, written>>
vars     == <<sessVars, concVars, utilVars, docVars, moreVars>>

(***************************************************************************)
(* Bounds                                                                  *)
(***************************************************************************)
MaxSessions == 3       \* Session objects constructed in one run
MaxLogCalls == 2       \* set_stream_logger calls in one run
MaxWaiterCalls == 2    \* get_waiter calls in one run
MaxHandlerCalls == 2   \* calls of a lazy_call handler in one run
MaxIdentifiers == 2    \* identifiers of a returned resource
MaxParams == 2         \* parameters of a collection's request
NThreads    == 2       \* concurrent callers in SpecConc

None == "<None>"

(***************************************************************************)
(* boto3/__init__.py                                                       *)
(***************************************************************************)
\* Keyword arguments a caller may give to Session(**kwargs): sets of <<key, value>>.
KwargsSet ==
    { {}, {<<"region_name", "us-west-2">>}, {<<"profile_name", "dev">>} }

ServiceNames == {"s3", "ec2"}

\* The functions that forward to the default session.
ForwardOps == {"client", "resource"}

\* The module globals the session helpers read and write.
Globals == [DEFAULT_SESSION |-> DEFAULT_SESSION, sessions |-> sessions]

\* One invocation of the Session constructor: its keyword arguments and whether
\* it returned (ok) or raised.
Ctor(kwargs, ok) == [kwargs |-> kwargs, ok |-> ok]

\* The outcome of one call: the globals after it, the value returned (a session
\* id, 0 when the call raised), whether it raised, and the invocations of
\* Session(...) made during the call, in order.
Outcome(g, ret, raised, ctor) ==
    [g |-> g, ret |-> ret, raised |-> raised, ctor |-> ctor]

\* setup_default_session(**kwargs).  ok = FALSE: Session(**kwargs) raises.
setup_default_session_no_store(g, kwargs, ok) ==
    IF ok
    THEN Outcome([g EXCEPT !.sessions = Append(@, kwargs)],
                 Len(g.sessions) + 1, FALSE, <<Ctor(kwargs, TRUE)>>)
    ELSE Outcome(g, 0, TRUE, <<Ctor(kwargs, FALSE)>>)

setup_default_session_drop_kwargs(g, kwargs, ok) ==
    IF ok
    THEN Outcome([g EXCEPT !.sessions = Append(@, {}),
                           !.DEFAULT_SESSION = Len(g.sessions) + 1],
                 Len(g.sessions) + 1, FALSE, <<Ctor({}, TRUE)>>)
    ELSE Outcome(g, 0, TRUE, <<Ctor({}, FALSE)>>)

setup_default_session_clear_first(g, kwargs, ok) ==
    IF ok
    THEN Outcome([g EXCEPT !.sessions = Append(@, kwargs),
                           !.DEFAULT_SESSION = Len(g.sessions) + 1],
                 Len(g.sessions) + 1, FALSE, <<Ctor(kwargs, TRUE)>>)
    ELSE Outcome([g EXCEPT !.DEFAULT_SESSION = 0], 0, TRUE, <<Ctor(kwargs, FALSE)>>)

setup_default_session(g, kwargs, ok) ==
    IF ok
    THEN \* result = Session(**kwargs); globals()["DEFAULT_SESSION"] = result
         Outcome([g EXCEPT !.sessions = Append(@, kwargs),
                           !.DEFAULT_SESSION = Len(g.sessions) + 1],
                 Len(g.sessions) + 1, FALSE, <<Ctor(kwargs, TRUE)>>)
    ELSE \* Session(**kwargs) raised: the assignment is never reached
         Outcome(g, 0, TRUE, <<Ctor(kwargs, FALSE)>>)

\* _get_default_session()
get_default_session_always_setup(g, ok) == setup_default_session(g, {}, ok)

get_default_session(g, ok) ==
    IF g.DEFAULT_SESSION # 0
    THEN Outcome(g, g.DEFAULT_SESSION, FALSE, <<>>)
    ELSE setup_default_session(g, {}, ok)

\* The record kept in `last` for a call `op` with arguments args and outcome o,
\* started with globals g; fwd is the session whose method was then invoked
\* (0: none) and method that method's name.
LastOf(op, g, o, fwd, method, args) ==
    [op |-> op, pre |-> g.DEFAULT_SESSION, ret |-> o.ret, raised |-> o.raised,
     ctor |-> o.ctor, fwd |-> fwd, method |-> method, args |-> args]

NoCall ==
    [op |-> "none", pre |-> 0, ret |-> 0, raised |-> FALSE, ctor |-> <<>>,
     fwd |-> 0, method |-> None, args |-> <<>>]

\* A Session may be constructed only while the run's bound allows one more.
CanConstruct == Len(sessions) < MaxSessions

SetupDefaultSession ==
    /\ CanConstruct
    /\ \E kwargs \in KwargsSet, ok \in BOOLEAN :
          LET o == setup_default_session(Globals, kwargs, ok) IN
          /\ DEFAULT_SESSION' = o.g.DEFAULT_SESSION
          /\ sessions' = o.g.sessions
          /\ last' = LastOf("setup_default_session", Globals, o, 0, None, <<kwargs>>)
    /\ UNCHANGED <<loggers, concVars, utilVars, docVars, moreVars>>

GetDefaultSession ==
    /\ DEFAULT_SESSION = 0 => CanConstruct
    /\ \E ok \in BOOLEAN :
          LET o == get_default_session(Globals, ok) IN
          /\ DEFAULT_SESSION' = o.g.DEFAULT_SESSION
          /\ sessions' = o.g.sessions
          /\ last' = LastOf("_get_default_session", Globals, o, 0, None, <<>>)
    /\ UNCHANGED <<loggers, concVars, utilVars, docVars, moreVars>>

\* client(*args, **kwargs) and resource(*args, **kwargs):
\* _get_default_session().<method>(*args, **kwargs)
Forwarding(method) ==
    /\ DEFAULT_SESSION = 0 => CanConstruct
    /\ \E svc \in ServiceNames, ok \in BOOLEAN :
          LET o == get_default_session(Globals, ok) IN
          /\ DEFAULT_SESSION' = o.g.DEFAULT_SESSION
          /\ sessions' = o.g.sessions
          /\ last' = IF o.raised
                     THEN LastOf(method, Globals, o, 0, None, <<svc>>)
                     ELSE LastOf(method, Globals, o, o.ret, method, <<svc>>)
    /\ UNCHANGED <<loggers, concVars, utilVars, docVars, moreVars>>

Client == Forwarding("client")

Resource == Forwarding("resource")

\* logging levels and the format used when format_string is None
DEBUG == 10
INFO  == 20
Levels == {DEBUG, INFO}
DefaultFormat == "%(asctime)s %(name)s [%(levelname)s] %(message)s"
FormatStrings == {None, "%(message)s"}
LoggerNames == {"boto3", "botocore"}

\* logging.StreamHandler() after setLevel(level) and setFormatter(Formatter(fmt))
StreamHandler(level, fmt) ==
    [kind |-> "StreamHandler", level |-> level, format |-> fmt]

\* The module's own NullHandler instance: logging.Handler's defaults.
NullHandler == [kind |-> "NullHandler", level |-> 0, format |-> None]

\* The logging module once boto3 is imported: loggers are created on demand
\* with level NOTSET (0) and no handlers; "boto3" got the NullHandler.
InitLoggers ==
    [n \in LoggerNames |->
        [level |-> 0,
         handlers |-> IF n = "boto3" THEN <<NullHandler>> ELSE <<>>]]

\* set_stream_logger(name, level, format_string)
set_stream_logger_replace(lg, name, level, format_string) ==
    LET fmt == IF format_string = None THEN DefaultFormat ELSE format_string
    IN  [lg EXCEPT ![name] =
            [level |-> level, handlers |-> <<StreamHandler(level, fmt)>>]]

set_stream_logger(lg, name, level, format_string) ==
    LET fmt == IF format_string = None THEN DefaultFormat ELSE format_string
    IN  [lg EXCEPT ![name] =
            [level |-> level,
             handlers |-> Append(@.handlers, StreamHandler(level, fmt))]]

\* The StreamHandlers attached to the logger called name.
RECURSIVE CountStream(_)
CountStream(hs) ==
    IF hs = <<>> THEN 0
    ELSE (IF Head(hs).kind = "StreamHandler" THEN 1 ELSE 0) + CountStream(Tail(hs))

RECURSIVE SumOver(_, _)
SumOver(S, lg) ==
    IF S = {} THEN 0
    ELSE LET n == CHOOSE x \in S : TRUE
         IN  CountStream(lg[n].handlers) + SumOver(S \ {n}, lg)

LogCalls == SumOver(LoggerNames, loggers)

SetStreamLogger ==
    /\ LogCalls < MaxLogCalls
    /\ \E name \in LoggerNames, level \in Levels, format_string \in FormatStrings :
          /\ loggers' = set_stream_logger(loggers, name, level, format_string)
          /\ last' = [NoCall EXCEPT !.op = "set_stream_logger",
                                    !.pre = DEFAULT_SESSION,
                                    !.args = <<name, level, format_string>>]
    /\ UNCHANGED <<DEFAULT_SESSION, sessions, concVars, utilVars, docVars, moreVars>>

(***************************************************************************)
(* Values the variables of the other specifications are pinned to          *)
(***************************************************************************)
IdleConc == /\ pc = [t \in 1..NThreads |-> "idle"]
            /\ frame = [t \in 1..NThreads |-> [op |-> None, result |-> 0, used |-> 0]]

\* No LazyLoadedWaiterModel object exists yet.
NoWaiterModel ==
    [constructed |-> FALSE, _service_name |-> None, _api_version |-> None]

NoUtilsCall == [op |-> "none", args |-> <<>>, raised |-> None]

IdleUtils == /\ class_attributes = <<>>
             /\ ulast = NoUtilsCall
             /\ waiter_model = NoWaiterModel
             /\ bc_calls = <<>>

\* The resources a documenter may be given.  client and model say whether
\* meta.client and meta.resource_model are present (truthy); name is
\* resource_model.name and service_name the client's service_model.service_name;
\* public_actions are the names get_resource_public_actions finds on the
\* resource's class, modeled_actions the names of resource_model.actions, and
\* load says whether resource_model.load is defined.
ActionNames == {"delete", "get_available_subresources", "load", "reload"}

\* "Bucket" is an ordinary resource of the service "s3", "s3" its service
\* resource.  A resource without a resource model has no name, no modeled
\* actions and no load definition.
ResourceNames == {"Bucket", "s3"}

Resources ==
    { r \in [client : BOOLEAN, model : BOOLEAN, name : ResourceNames \cup {None},
             service_name : {"s3"}, public_actions : SUBSET ActionNames,
             modeled_actions : SUBSET ActionNames, load : BOOLEAN] :
        IF r.model
        THEN r.name # None
        ELSE r.name = None /\ r.modeled_actions = {} /\ ~r.load }

\* resource_model.load.request.operation, when a load is defined
LoadOperation == "HeadBucket"

NoResource ==
    [client |-> FALSE, model |-> FALSE, name |-> None, service_name |-> None,
     public_actions |-> {}, modeled_actions |-> {}, load |-> FALSE]

\* No documenter object exists yet.
NoDocumenter ==
    [status |-> "none", failed_at |-> None, _client |-> FALSE,
     _resource_model |-> FALSE, _resource_name |-> None, _service_name |-> None,
     member_map |-> {}, represents_service_resource |-> FALSE]

\* An empty DocumentStructure: the text written to it, as the calls that wrote
\* it, and its subsections in the order they were added.
EmptySection == [calls |-> <<>>, subsections |-> <<>>]

IdleDocs == /\ resource = NoResource
            /\ documenter = NoDocumenter
            /\ section = EmptySection

\* No handler has been made by lazy_call yet.
NoHandler == [made |-> FALSE, full_name |-> <<>>, parent_kwargs |-> <<>>]

\* No target function has been called.
NoTarget == [module |-> <<>>, function |-> None, kwargs |-> <<>>]

NoLazyCall ==
    [op |-> "none", kwargs |-> <<>>, raised |-> None, target |-> NoTarget]

\* No documenter function has been called.
NothingWritten == [fn |-> "none"]

IdleLazy == /\ lazy_handler = NoHandler
            /\ imported = <<>>
            /\ lazy_last = NoLazyCall

IdleMore == IdleLazy /\ written = NothingWritten

InitSess == /\ DEFAULT_SESSION = 0
            /\ sessions = <<>>
            /\ last = NoCall
            /\ loggers = InitLoggers

(***************************************************************************)
(* Spec: the package-level functions called one after another              *)
(***************************************************************************)
Init == InitSess /\ IdleConc /\ IdleUtils /\ IdleDocs /\ IdleMore

Next ==
    \/ SetupDefaultSession
    \/ GetDefaultSession
    \/ Client
    \/ Resource
    \/ SetStreamLogger

Spec == Init /\ [][Next]_vars

(***************************************************************************)
(* SpecConc: threads calling client()/resource() at the same time.  The    *)
(* interpreter switches threads between bytecodes, so the read of the      *)
(* global at line 90, the read at line 91, the constructor call at line 41 *)
(* and the store at line 42 are separate steps.                            *)
(***************************************************************************)
Threads == 1..NThreads

\* client()/resource() is entered: _get_default_session() is called first.
Call(t) ==
    /\ pc[t] = "idle"
    /\ \E op \in ForwardOps :
          frame' = [frame EXCEPT ![t].op = op]
    /\ pc' = [pc EXCEPT ![t] = "check"]
    /\ UNCHANGED <<sessVars, utilVars, docVars, moreVars>>

\* line 90: if DEFAULT_SESSION is not None
CheckDefault(t) ==
    /\ pc[t] = "check"
    /\ pc' = [pc EXCEPT ![t] = IF DEFAULT_SESSION # 0 THEN "ret_default"
                                                      ELSE "construct"]
    /\ UNCHANGED <<frame, sessVars, utilVars, docVars, moreVars>>

\* line 91: return DEFAULT_SESSION (the global is read again)
ReturnDefault(t) ==
    /\ pc[t] = "ret_default"
    /\ frame' = [frame EXCEPT ![t].result = DEFAULT_SESSION]
    /\ pc' = [pc EXCEPT ![t] = "forward"]
    /\ UNCHANGED <<sessVars, utilVars, docVars, moreVars>>

\* lines 93 and 41: result = Session()
Construct(t) ==
    /\ pc[t] = "construct"
    /\ CanConstruct
    /\ \E ok \in BOOLEAN :
          IF ok
          THEN /\ sessions' = Append(sessions, {})
               /\ frame' = [frame EXCEPT ![t].result = Len(sessions) + 1]
               /\ pc' = [pc EXCEPT ![t] = "store"]
          ELSE /\ pc' = [pc EXCEPT ![t] = "raised"]
               /\ UNCHANGED <<sessions, frame>>
    /\ UNCHANGED <<DEFAULT_SESSION, last, loggers, utilVars, docVars, moreVars>>

\* lines 42-43: globals()["DEFAULT_SESSION"] = result; return result
Store(t) ==
    /\ pc[t] = "store"
    /\ DEFAULT_SESSION' = frame[t].result
    /\ pc' = [pc EXCEPT ![t] = "forward"]
    /\ UNCHANGED <<frame, sessions, last, loggers, utilVars, docVars, moreVars>>

\* lines 102 and 111: the method is invoked on the session that was returned
Forward(t) ==
    /\ pc[t] = "forward"
    /\ frame' = [frame EXCEPT ![t].used = frame[t].result]
    /\ pc' = [pc EXCEPT ![t] = "done"]
    /\ UNCHANGED <<sessVars, utilVars, docVars, moreVars>>

InitConc == InitSess /\ IdleConc /\ IdleUtils /\ IdleDocs /\ IdleMore

NextConc ==
    \E t \in Threads :
        \/ Call(t)
        \/ CheckDefault(t)
        \/ ReturnDefault(t)
        \/ Construct(t)
        \/ Store(t)
        \/ Forward(t)

SpecConc == InitConc /\ [][NextConc]_vars

(***************************************************************************)
(* boto3/utils.py (SpecUtils)                                              *)
(***************************************************************************)
AttrNames == {"meta", "load", "bucket_name"}
AttrValues == {"v1", "v2"}

\* class_attributes[name] = value on a dict held as a function
DictSet(dict, name, value) ==
    [k \in DOMAIN dict \cup {name} |-> IF k = name THEN value ELSE dict[k]]

\* inject_attribute(class_attributes, name, value): the dict afterwards and the
\* exception raised (None: returned normally)
inject_attribute_set_then_check(dict, name, value) ==
    IF name \in DOMAIN dict
    THEN [dict |-> DictSet(dict, name, value), raised |-> "RuntimeError"]
    ELSE [dict |-> DictSet(dict, name, value), raised |-> None]

inject_attribute(dict, name, value) ==
    IF name \in DOMAIN dict
    THEN [dict |-> dict, raised |-> "RuntimeError"]
    ELSE [dict |-> DictSet(dict, name, value), raised |-> None]

InjectAttribute ==
    /\ \E name \in AttrNames, value \in AttrValues :
          LET r == inject_attribute(class_attributes, name, value) IN
          /\ class_attributes' = r.dict
          /\ ulast' = [op |-> "inject_attribute", args |-> <<name, value>>,
                       raised |-> r.raised]
    /\ UNCHANGED <<waiter_model, bc_calls, sessVars, concVars, docVars, moreVars>>

ApiVersions == {"2006-03-01", "2016-11-15"}
WaiterNames == {"bucket_exists", "instance_running"}

\* One use of the botocore session by a waiter model:
\* bc_session.get_waiter_model(service_name, api_version).get_waiter(waiter_name)
WaiterLoad(service_name, api_version, waiter_name) ==
    [service_name |-> service_name, api_version |-> api_version,
     waiter_name |-> waiter_name]

\* LazyLoadedWaiterModel(bc_session, service_name, api_version): the object and
\* the calls the botocore session has received
LazyLoadedWaiterModel_eager(calls, service_name, api_version) ==
    [obj |-> [constructed |-> TRUE, _service_name |-> service_name,
              _api_version |-> api_version],
     calls |-> Append(calls, WaiterLoad(service_name, api_version, None))]

LazyLoadedWaiterModel(calls, service_name, api_version) ==
    [obj |-> [constructed |-> TRUE, _service_name |-> service_name,
              _api_version |-> api_version],
     calls |-> calls]

\* LazyLoadedWaiterModel.get_waiter(waiter_name)
get_waiter(self, calls, waiter_name) ==
    Append(calls, WaiterLoad(self._service_name, self._api_version, waiter_name))

NewLazyLoadedWaiterModel ==
    /\ \E service_name \in ServiceNames, api_version \in ApiVersions :
          LET r == LazyLoadedWaiterModel(bc_calls, service_name, api_version) IN
          /\ waiter_model' = r.obj
          /\ bc_calls' = r.calls
          /\ ulast' = [op |-> "LazyLoadedWaiterModel",
                       args |-> <<service_name, api_version>>, raised |-> None]
    /\ UNCHANGED <<class_attributes, sessVars, concVars, docVars, moreVars>>

GetWaiter ==
    /\ waiter_model.constructed
    /\ Len(bc_calls) < MaxWaiterCalls
    /\ \E waiter_name \in WaiterNames :
          /\ bc_calls' = get_waiter(waiter_model, bc_calls, waiter_name)
          /\ ulast' = [op |-> "get_waiter", args |-> <<waiter_name>>,
                       raised |-> None]
    /\ UNCHANGED <<class_attributes, waiter_model, sessVars, concVars, docVars, moreVars>>

InitUtils == InitSess /\ IdleConc /\ IdleUtils /\ IdleDocs /\ IdleMore

NextUtils ==
    \/ InjectAttribute
    \/ NewLazyLoadedWaiterModel
    \/ GetWaiter

SpecUtils == InitUtils /\ [][NextUtils]_vars

(***************************************************************************)
(* boto3/docs/base.py and boto3/docs/action.py (SpecDocs)                  *)
(***************************************************************************)
\* BaseDocumenter.__init__(resource): the object, or the assertion that failed
BaseDocumenter_init_model_first(res) ==
    IF ~res.model
    THEN [NoDocumenter EXCEPT !.status = "AssertionError",
                              !.failed_at = "meta.resource_model"]
    ELSE IF ~res.client
    THEN [NoDocumenter EXCEPT !.status = "AssertionError",
                              !.failed_at = "meta.client"]
    ELSE [status |-> "constructed", failed_at |-> None, _client |-> res.client,
          _resource_model |-> res.model, _resource_name |-> res.name,
          _service_name |-> res.service_name, member_map |-> {},
          represents_service_resource |-> (res.service_name = res.name)]

BaseDocumenter_init(res) ==
    IF ~res.client
    THEN \* assert self._resource.meta.client
         [NoDocumenter EXCEPT !.status = "AssertionError",
                              !.failed_at = "meta.client"]
    ELSE IF ~res.model
    THEN \* assert self._resource.meta.resource_model
         [NoDocumenter EXCEPT !.status = "AssertionError",
                              !.failed_at = "meta.resource_model",
                              !._client = res.client]
    ELSE [status |-> "constructed", failed_at |-> None, _client |-> res.client,
          _resource_model |-> res.model, _resource_name |-> res.name,
          _service_name |-> res.service_name, member_map |-> {},
          represents_service_resource |-> (res.service_name = res.name)]

\* Python's order of the action names: sorted() of these strings
NameOrder == <<"delete", "get_available_subresources", "load", "reload">>

\* sorted(names)
Sorted(names) == SelectSeq(NameOrder, LAMBDA n : n \in names)

\* botocore.xform_name on the names used here: CamelCase to snake_case
xform_name(name) ==
    CASE name = "Bucket"     -> "bucket"
      [] name = "Object"     -> "object"
      [] name = "HeadBucket" -> "head_bucket"
      [] OTHER               -> name

\* botocore.utils.get_service_module_name on the services used here
get_service_module_name(service_name) ==
    CASE service_name = "s3"  -> "S3"
      [] service_name = "ec2" -> "EC2"
      [] OTHER                -> service_name

\* OperationModel({}, service_model): no name, no input shape, no output shape
EmptyOperationModel ==
    [name |-> None, input_members |-> {}, has_output |-> FALSE]

\* The example resource name the writers share: the resource name itself for
\* the service resource, its snake_case form otherwise.
ExampleResourceName(service_name, resource_name) ==
    IF service_name = resource_name THEN resource_name
    ELSE xform_name(resource_name)

\* The three writers of an action's section, as the call each one is.
\* document_load_reload_action(section, action_name, resource_name, event_emitter,
\* load_model, service_model): its call of document_model_driven_method.  A
\* formatted string is held as the tuple of its pieces (quoting marks left out).
document_load_reload_action_named_description(action_name, resource_name, service_name, load_operation, include_signature) ==
    [fn |-> "document_load_reload_action", method_name |-> action_name,
     operation_model |-> EmptyOperationModel,
     method_description |->
        <<"Calls  :py:meth:", get_service_module_name(service_name), ".Client.",
          xform_name(load_operation), " to update the attributes of the ",
          resource_name, " resource via ", action_name>>,
     example_prefix |->
        <<ExampleResourceName(service_name, resource_name), ".", action_name>>,
     include_signature |-> include_signature]

document_load_reload_action(action_name, resource_name, service_name, load_operation, include_signature) ==
    [fn |-> "document_load_reload_action", method_name |-> action_name,
     operation_model |-> EmptyOperationModel,
     method_description |->
        <<"Calls  :py:meth:", get_service_module_name(service_name), ".Client.",
          xform_name(load_operation), " to update the attributes of the ",
          resource_name, " resource. Note that the load and reload methods are ",
          "the same method and can be used interchangeably.">>,
     example_prefix |->
        <<ExampleResourceName(service_name, resource_name), ".", action_name>>,
     include_signature |-> include_signature]

\* document_action(section, resource_name, ..., action_model, ...)
document_action(resource_name, action_model) ==
    [fn |-> "document_action", method_name |-> action_model,
     resource_name |-> resource_name, model |-> action_model]

\* document_custom_method(section, method_name, method)
document_custom_method(method_name, method) ==
    [fn |-> "document_custom_method", method_name |-> method_name,
     resource_name |-> None, model |-> method]

\* The body of document_actions' loop for one action name: the section added
\* for it and what is written to it.
ActionSection_no_elif(self, res, action_name) ==
    [name |-> action_name,
     calls |->
        (IF action_name \in {"load", "reload"} /\ res.load
         THEN <<document_load_reload_action(action_name, self._resource_name,
                                          self._service_name, LoadOperation, TRUE)>>
         ELSE <<>>)
        \o
        (IF action_name \in res.modeled_actions
         THEN <<document_action(self._resource_name, action_name)>>
         ELSE IF action_name \in {"load", "reload"} /\ res.load
         THEN <<>>
         ELSE <<document_custom_method(action_name, action_name)>>)]

ActionSection(self, res, action_name) ==
    [name |-> action_name,
     calls |->
        IF action_name \in {"load", "reload"} /\ res.load
        THEN <<document_load_reload_action(action_name, self._resource_name,
                                          self._service_name, LoadOperation, TRUE)>>
        ELSE IF action_name \in res.modeled_actions
        THEN <<document_action(self._resource_name, action_name)>>
        ELSE <<document_custom_method(action_name, action_name)>>]

\* ActionDocumenter.document_actions(section), section empty: the member map
\* and the section afterwards
document_actions_unsorted_map(self, res) ==
    LET names == Sorted(res.public_actions) IN
    [member_map |-> (self.member_map \ {e \in self.member_map : e[1] = "actions"})
                        \cup {<<"actions",
                               [i \in 1..Len(names) |-> names[Len(names) + 1 - i]]>>},
     section |->
        [calls |-> <<[fn |-> "add_resource_type_overview",
                      resource_type |-> "Actions"]>>,
         subsections |->
            [i \in 1..Len(names) |-> ActionSection(self, res, names[i])]]]

document_actions(self, res) ==
    LET names == Sorted(res.public_actions) IN
    [member_map |-> (self.member_map \ {e \in self.member_map : e[1] = "actions"})
                        \cup {<<"actions", names>>},
     section |->
        [calls |-> <<[fn |-> "add_resource_type_overview",
                      resource_type |-> "Actions"]>>,
         subsections |->
            [i \in 1..Len(names) |-> ActionSection(self, res, names[i])]]]

\* ActionDocumenter(resource)
NewActionDocumenter ==
    /\ \E res \in Resources :
          /\ resource' = res
          /\ documenter' = BaseDocumenter_init(res)
    /\ section' = EmptySection
    /\ UNCHANGED <<sessVars, concVars, utilVars, moreVars>>

\* documenter.document_actions(section) on a new section
DocumentActions ==
    /\ documenter.status = "constructed"
    /\ LET r == document_actions(documenter, resource) IN
          /\ documenter' = [documenter EXCEPT !.member_map = r.member_map]
          /\ section' = r.section
    /\ UNCHANGED <<resource, sessVars, concVars, utilVars, moreVars>>

InitDocs == InitSess /\ IdleConc /\ IdleUtils /\ IdleDocs /\ IdleMore

NextDocs ==
    \/ NewActionDocumenter
    \/ DocumentActions

SpecDocs == InitDocs /\ [][NextDocs]_vars

(***************************************************************************)
(* boto3/utils.py: lazy_call (SpecLazy)                                    *)
(***************************************************************************)
\* Dotted names handed to lazy_call, part by part: functions that exist, a
\* name without a dot, a function the module lacks, a module that is not there.
FullNames ==
    { <<"os", "getcwd">>, <<"boto3", "utils", "inject_attribute">>,
      <<"boto3", "utils", "lazy_call">>, <<"getcwd">>, <<"os", "nope">>,
      <<"nomodule", "f">> }

KwKeys == {"full_name", "x"}
KwValues == {"v1", "v2"}

\* Keyword-argument dicts: functions from some of the keys to values.
KwDicts == UNION { [D -> KwValues] : D \in SUBSET KwKeys }

\* dict.update(other) on dict: other's value wins on a key of both
DictUpdate(dict, other) ==
    [k \in DOMAIN dict \cup DOMAIN other |->
        IF k \in DOMAIN other THEN other[k] ELSE dict[k]]

\* full_name.rsplit(".", 1): the part before the last dot and the part after
\* it; a name without a dot gives one part only
RSplit1(full_name) ==
    IF Len(full_name) < 2 THEN <<full_name>>
    ELSE <<SubSeq(full_name, 1, Len(full_name) - 1), full_name[Len(full_name)]>>

\* The modules __import__ finds, and the attributes getattr finds in them.
Importable == { <<"os">>, <<"boto3", "utils">> }

ModuleAttributes(module) ==
    IF module = <<"os">> THEN {"getcwd"}
    ELSE IF module = <<"boto3", "utils">> THEN {"inject_attribute", "lazy_call"}
    ELSE {}

\* function(**kwargs): the exception the call ends with, None when it returns.
\* os.getcwd takes no keyword arguments; inject_attribute(class_attributes,
\* name, value) takes exactly these three and, the values being strings,
\* raises RuntimeError when name is in class_attributes and fails at the item
\* assignment otherwise; lazy_call(full_name, **kwargs) needs full_name and
\* takes any other keyword.
CallOutcome(function, kwargs) ==
    CASE function = "getcwd" ->
            IF DOMAIN kwargs = {} THEN None ELSE "TypeError"
      [] function = "inject_attribute" ->
            IF DOMAIN kwargs # {"class_attributes", "name", "value"}
            THEN "TypeError"
            ELSE IF kwargs["name"] = kwargs["class_attributes"]
            THEN \* name in class_attributes, both strings of KwValues
                 "RuntimeError"
            ELSE \* class_attributes[name] = value on a string
                 "TypeError"
      [] function = "lazy_call" ->
            IF "full_name" \in DOMAIN kwargs THEN None ELSE "TypeError"

\* lazy_call(full_name, **kwargs): the exception it ends with or the handler
\* returned, and the calls of import_module made
lazy_call_eager(imports, full_name, kwargs) ==
    IF "full_name" \in DOMAIN kwargs
    THEN [raised |-> "TypeError", handler |-> NoHandler, imports |-> imports]
    ELSE [raised |-> None,
          handler |-> [made |-> TRUE, full_name |-> full_name,
                       parent_kwargs |-> kwargs],
          imports |-> IF Len(RSplit1(full_name)) = 2
                      THEN Append(imports, RSplit1(full_name)[1]) ELSE imports]

lazy_call(imports, full_name, kwargs) ==
    IF "full_name" \in DOMAIN kwargs
    THEN \* lazy_call() got multiple values for argument 'full_name'
         [raised |-> "TypeError", handler |-> NoHandler, imports |-> imports]
    ELSE [raised |-> None,
          handler |-> [made |-> TRUE, full_name |-> full_name,
                       parent_kwargs |-> kwargs],
          imports |-> imports]

\* _handler(**kwargs) of the handler h: the exception it ends with, the calls
\* of import_module made so far, and the call of the target
handler_call_time_wins(h, imports, kwargs) ==
    LET parts == RSplit1(h.full_name) IN
    IF Len(parts) # 2
    THEN [raised |-> "ValueError", imports |-> imports, target |-> NoTarget]
    ELSE IF parts[1] \notin Importable
    THEN [raised |-> "ModuleNotFoundError",
          imports |-> Append(imports, parts[1]), target |-> NoTarget]
    ELSE IF parts[2] \notin ModuleAttributes(parts[1])
    THEN [raised |-> "AttributeError",
          imports |-> Append(imports, parts[1]), target |-> NoTarget]
    ELSE [raised |-> CallOutcome(parts[2], DictUpdate(h.parent_kwargs, kwargs)),
          imports |-> Append(imports, parts[1]),
          target |-> [module |-> parts[1], function |-> parts[2],
                      kwargs |-> DictUpdate(h.parent_kwargs, kwargs)]]

handler_call(h, imports, kwargs) ==
    LET parts == RSplit1(h.full_name) IN
    IF Len(parts) # 2
    THEN \* module, function_name = ... cannot unpack one value
         [raised |-> "ValueError", imports |-> imports, target |-> NoTarget]
    ELSE IF parts[1] \notin Importable
    THEN \* __import__(name) finds no module (an ImportError)
         [raised |-> "ModuleNotFoundError",
          imports |-> Append(imports, parts[1]), target |-> NoTarget]
    ELSE IF parts[2] \notin ModuleAttributes(parts[1])
    THEN \* kwargs.update(parent_kwargs); getattr(module, function_name) fails
         [raised |-> "AttributeError",
          imports |-> Append(imports, parts[1]), target |-> NoTarget]
    ELSE \* getattr(module, function_name)(**kwargs): an exception of the call
         \* passes through the handler
         [raised |-> CallOutcome(parts[2], DictUpdate(kwargs, h.parent_kwargs)),
          imports |-> Append(imports, parts[1]),
          target |-> [module |-> parts[1], function |-> parts[2],
                      kwargs |-> DictUpdate(kwargs, h.parent_kwargs)]]

LazyCall ==
    /\ \E full_name \in FullNames, kwargs \in KwDicts :
          LET r == lazy_call(imported, full_name, kwargs) IN
          /\ lazy_handler' = (IF r.raised = None THEN r.handler ELSE lazy_handler)
          /\ imported' = r.imports
          /\ lazy_last' = [NoLazyCall EXCEPT !.op = "lazy_call", !.kwargs = kwargs,
                                             !.raised = r.raised]
    /\ UNCHANGED <<written, sessVars, concVars, utilVars, docVars>>

Handler ==
    /\ lazy_handler.made
    /\ Len(imported) < MaxHandlerCalls
    /\ \E kwargs \in KwDicts :
          LET r == handler_call(lazy_handler, imported, kwargs) IN
          /\ imported' = r.imports
          /\ lazy_last' = [op |-> "handler", kwargs |-> kwargs,
                           raised |-> r.raised, target |-> r.target]
    /\ UNCHANGED <<lazy_handler, written, sessVars, concVars, utilVars, docVars>>

InitLazy == InitSess /\ IdleConc /\ IdleUtils /\ IdleDocs /\ IdleMore

NextLazy ==
    \/ LazyCall
    \/ Handler

SpecLazy == InitLazy /\ [][NextLazy]_vars

(***************************************************************************)
(* boto3/docs/method.py, collection.py, attr.py (SpecWriters).  Each       *)
(* documenter function is applied once to an input drawn by Init; written  *)
(* holds the function's name, its input and, once done, its output.        *)
(***************************************************************************)
\* A DocumentStructure: what was written to it, in order, and its subsections
\* [name, doc] in the order of the underlying ordered dict.
EmptyDoc == [writes |-> <<>>, subs |-> <<>>]

\* section.available_sections
available_sections(doc) == [i \in DOMAIN doc.subs |-> doc.subs[i].name]

HasSection(doc, name) == \E i \in DOMAIN doc.subs : doc.subs[i].name = name

\* section.add_new_section(name): self._structure[name] = <a new section>; a
\* name already there keeps its place and gets the new, empty section
add_new_section(doc, name) ==
    IF HasSection(doc, name)
    THEN [doc EXCEPT !.subs =
            [i \in DOMAIN doc.subs |->
                IF doc.subs[i].name = name
                THEN [name |-> name, doc |-> EmptyDoc] ELSE doc.subs[i]]]
    ELSE [doc EXCEPT !.subs = Append(@, [name |-> name, doc |-> EmptyDoc])]

\* section.delete_section(name)
delete_section(doc, name) ==
    [doc EXCEPT !.subs = SelectSeq(@, LAMBDA sub : sub.name # name)]

\* writes appended to the subsection called name
WriteTo(doc, name, writes) ==
    [doc EXCEPT !.subs =
        [i \in DOMAIN doc.subs |->
            IF doc.subs[i].name = name
            THEN [doc.subs[i] EXCEPT !.doc.writes = @ \o writes]
            ELSE doc.subs[i]]]

\* section.write(text), section.style.new_line()
Write(text) == [op |-> "write", text |-> text]
NewLine == [op |-> "new_line", text |-> <<>>]

\* s in text, for strings held as tuples of characters
Contains(text, s) ==
    \E i \in 0..(Len(text) - Len(s)) : SubSeq(text, i + 1, i + Len(s)) = s

\* Identifier paths, character by character: no path (None), "", "B[].K",
\* "B.K", "B[0]" and "][".
Paths ==
    { <<>>, <<"B", "[", "]", ".", "K">>, <<"B", ".", "K">>,
      <<"B", "[", "0", "]">>, <<"]", "[">> }

Identifiers ==
    {[has_path |-> FALSE, path |-> <<>>]}
        \cup {[has_path |-> TRUE, path |-> p] : p \in Paths}

\* Lists of at most n identifiers.
IdentifierLists(n) == UNION { [1..k -> Identifiers] : k \in 0..n }

\* _method_returns_resource_list(resource)
RECURSIVE method_returns_resource_list(_)
method_returns_resource_list_first_only(identifiers) ==
    /\ identifiers # <<>>
    /\ Head(identifiers).has_path
    /\ Head(identifiers).path # <<>>
    /\ Contains(Head(identifiers).path, <<"[", "]">>)

method_returns_resource_list(identifiers) ==
    IF identifiers = <<>> THEN FALSE
    ELSE IF /\ Head(identifiers).has_path
            /\ Head(identifiers).path # <<>>
            /\ Contains(Head(identifiers).path, <<"[", "]">>)
    THEN TRUE
    ELSE method_returns_resource_list(Tail(identifiers))

\* What botocore's document_model_driven_method leaves in an empty section for
\* the arguments args: its subsections, with or without a 'return' one, and
\* with it last or not (variant).  The documented request parameters are the
\* operation's input members without the excluded ones, then the included ones.
Variants == {"return_last", "return_inside", "no_return"}

BotocoreReturn(args) ==
    [name |-> "return",
     doc |-> [writes |-> <<NewLine,
                           Write(IF args.operation.has_output
                                 THEN <<":rtype: dict">> ELSE <<":returns: None">>)>>,
              subs |-> <<>>]]

BotocoreSection(name, writes) ==
    [name |-> name, doc |-> [writes |-> writes, subs |-> <<>>]]

document_model_driven_method(args, variant) ==
    LET intro  == BotocoreSection("method-intro",
                      (IF args.include_signature
                       THEN <<[op |-> "start_sphinx_py_method",
                               text |-> <<args.method_name>>]>>
                       ELSE <<>>) \o <<Write(args.method_description)>>)
        exampl == BotocoreSection("example", <<Write(args.example_prefix)>>)
        params == BotocoreSection("request-params",
                      <<[op |-> "params",
                         text |-> <<args.operation.input_members \ args.exclude_input,
                                    args.include_input>>]>>)
    IN  [writes |-> <<>>,
         subs |-> CASE variant = "return_last" ->
                          <<intro, exampl, params, BotocoreReturn(args)>>
                    [] variant = "return_inside" ->
                          <<intro, BotocoreReturn(args), exampl, params>>
                    [] OTHER -> <<intro, exampl, params>>]

\* The lines written to the new 'return' section.
ReturnWrites(service_name, resource_type, is_list) ==
    LET class == <<":py:class:", service_name, ".", resource_type>>
    IN  <<NewLine,
          Write(IF is_list THEN <<":rtype: ", "list(", class, ")">>
                           ELSE <<":rtype: ", class>>),
          NewLine,
          Write(IF is_list THEN <<":returns: ", "A list of ", resource_type, " resources">>
                           ELSE <<":returns: ", resource_type, " resource">>),
          NewLine>>

\* document_model_driven_resource_method(section, ..., resource_action_model, ...)
\* on an empty section: ram is the action model, args the other arguments
document_model_driven_resource_method_keep_return(args, ram, variant) ==
    LET base == document_model_driven_method(args, variant) IN
    IF ram.has_resource
    THEN LET s2 == IF HasSection(base, "return") THEN base
                   ELSE add_new_section(base, "return")
         IN  WriteTo(s2, "return",
                     ReturnWrites(args.operation.service_name, ram.resource_type,
                                  method_returns_resource_list(ram.identifiers)))
    ELSE base

document_model_driven_resource_method(args, ram, variant) ==
    LET base == document_model_driven_method(args, variant) IN
    IF ram.has_resource
    THEN LET s1 == IF HasSection(base, "return")
                   THEN delete_section(base, "return") ELSE base
             s2 == add_new_section(s1, "return")
         IN  WriteTo(s2, "return",
                     ReturnWrites(args.operation.service_name, ram.resource_type,
                                  method_returns_resource_list(ram.identifiers)))
    ELSE base

\* Operation models: name, input members (none without an input shape),
\* whether there is an output shape, and the service's name.
Operations ==
    [name : {"ListObjects"}, input_members : {{}, {"Bucket", "Prefix"}},
     has_output : BOOLEAN, service_name : {"s3"}]

\* Action models that may be handed to the method documenter.
ActionModels ==
    { m \in [has_resource : BOOLEAN, resource_type : {"Object", None},
             identifiers : IdentifierLists(MaxIdentifiers)] :
        IF m.has_resource THEN m.resource_type # None
        ELSE m.resource_type = None /\ m.identifiers = <<>> }

MethodArgs ==
    [method_name : {"delete"}, operation : Operations,
     method_description : {<<"Deletes.">>},
     example_prefix : {<<"response", " = ", "bucket", ".", "delete">>},
     include_input : {<<>>}, exclude_input : {{}, {"Bucket"}},
     include_signature : BOOLEAN]

\* A call not yet made: the function, its input, no output; member_map is
\* the documenter's, for the methods that set it.
Pending(fn, input) ==
    [fn |-> fn, input |-> input, done |-> FALSE, out |-> EmptyDoc, member_map |-> {}]

ResourceMethodInputs ==
    { Pending("document_model_driven_resource_method", i) :
        i \in [args : MethodArgs, ram : ActionModels, variant : Variants] }

DocumentModelDrivenResourceMethod ==
    /\ written.fn = "document_model_driven_resource_method"
    /\ ~written.done
    /\ written' = [written EXCEPT
                      !.done = TRUE,
                      !.out = document_model_driven_resource_method(
                                  written.input.args, written.input.ram,
                                  written.input.variant)]
    /\ UNCHANGED <<lazy_handler, imported, lazy_last,
                   sessVars, concVars, utilVars, docVars>>

(***************************************************************************)
(* boto3/docs/collection.py                                                *)
(***************************************************************************)
\* section.style.start_sphinx_py_attr(name), section.include_doc_string(text)
StartSphinxPyAttr(name) == [op |-> "start_sphinx_py_attr", text |-> <<name>>]
IncludeDocString(text) == [op |-> "include_doc_string", text |-> text]

\* Targets of request parameters, token by token: "Bucket", "Prefix[0]" and
\* "[0].Key"
Targets == { <<"Bucket">>, <<"Prefix", "[0]">>, <<"[0]", "Key">> }

ParamLists(n) == UNION { [1..k -> Targets] : k \in 0..n }

\* boto3.docs.utils.get_resource_ignore_params(params): the leftmost element
\* of each target that is a field, in the order of the parameters
RECURSIVE get_resource_ignore_params(_)
get_resource_ignore_params(params) ==
    IF params = <<>> THEN <<>>
    ELSE (IF Head(params)[1] # "[0]" THEN <<Head(params)[1]>> ELSE <<>>)
             \o get_resource_ignore_params(Tail(params))

Range(seq) == { seq[i] : i \in DOMAIN seq }

\* The collections: name, type of the resources, request parameters, names of
\* the batch actions, identifiers of the resource.
Collections ==
    [name : {"objects"}, resource_type : {"Object"},
     params : ParamLists(MaxParams), batch_actions : SUBSET {"delete"},
     identifiers : { <<>>, <<[has_path |-> TRUE,
                              path |-> <<"B", "[", "]", ".", "K">>]>> }]

\* A collection handed over as resource_action_model: it always has a resource.
CollectionAsAction(collection) ==
    [has_resource |-> TRUE, resource_type |-> collection.resource_type,
     identifiers |-> collection.identifiers]

custom_action_names == {"all", "filter", "limit", "page_size"}

\* Public methods a collection object may have: the four, a batch action
\* ("delete") and one more ("pages"); in sorted order.
MethodOrder == <<"all", "delete", "filter", "limit", "page_size", "pages">>

method_descriptions(action_name, collection) ==
    CASE action_name = "all" ->
            <<"Creates an iterable of all ", collection.resource_type,
              " resources in the collection.">>
      [] action_name = "filter" ->
            <<"Creates an iterable of all ", collection.resource_type,
              " resources in the collection filtered by kwargs passed to method.",
              "A ", collection.resource_type,
              " collection will include all resources by default if no filters are provided, and extreme caution should be taken when performing actions on all resources.">>
      [] action_name = "limit" ->
            <<"Creates an iterable up to a specified amount of ",
              collection.resource_type, " resources in the collection.">>
      [] action_name = "page_size" ->
            <<"Creates an iterable of all ", collection.resource_type,
              " resources in the collection, but limits the number of items returned by each service call by the specified amount.">>

example_prefixes(action_name, collection, example_resource_name) ==
    <<xform_name(collection.resource_type), "_iterator = ",
      example_resource_name, ".", collection.name, ".", action_name>>

\* DocumentedShape(name, type_name, documentation)
DocumentedShape(name, type_name, documentation) ==
    [name |-> name, type_name |-> type_name, documentation |-> documentation]

\* include_inputs.get(action_name); no entry (None) is the empty list
include_inputs(action_name) ==
    CASE action_name = "limit" ->
            << DocumentedShape("count", "integer",
                   <<"The limit to the number of resources in the iterable.">>) >>
      [] action_name = "page_size" ->
            << DocumentedShape("count", "integer",
                   <<"The number of items returned by each service call">>) >>
      [] OTHER -> <<>>

\* exclude_inputs.get(action_name), as the set of the names excluded
exclude_inputs_filter_as_all(action_name, underlying_operation_members, params) ==
    underlying_operation_members

exclude_inputs(action_name, underlying_operation_members, params) ==
    IF action_name = "filter"
    THEN Range(get_resource_ignore_params(params))
    ELSE underlying_operation_members

\* document_collection_method(section, resource_name, action_name, ...,
\* collection_model, service_model, include_signature) on an empty section
document_collection_method_any_name(resource_name, action_name, collection, operation, include_signature, variant) ==
    LET name == IF action_name \in custom_action_names THEN action_name ELSE "all" IN
    document_model_driven_resource_method(
        [method_name |-> action_name,
         operation |-> operation,
         method_description |-> method_descriptions(name, collection),
         example_prefix |->
             example_prefixes(action_name, collection,
                 ExampleResourceName(operation.service_name, resource_name)),
         include_input |-> include_inputs(name),
         exclude_input |->
             exclude_inputs(name, operation.input_members, collection.params),
         include_signature |-> include_signature],
        CollectionAsAction(collection), variant)

document_collection_method(resource_name, action_name, collection, operation, include_signature, variant) ==
    IF action_name \in custom_action_names
    THEN document_model_driven_resource_method(
             [method_name |-> action_name,
              operation |-> operation,
              method_description |-> method_descriptions(action_name, collection),
              example_prefix |->
                  example_prefixes(action_name, collection,
                      ExampleResourceName(operation.service_name, resource_name)),
              include_input |-> include_inputs(action_name),
              exclude_input |->
                  exclude_inputs(action_name, operation.input_members,
                                 collection.params),
              include_signature |-> include_signature],
             CollectionAsAction(collection), variant)
    ELSE EmptyDoc

CollectionMethodInputs ==
    { Pending("document_collection_method", i) :
        i \in [resource_name : {"Bucket"}, action_name : Range(MethodOrder),
               collection : Collections, operation : Operations,
               include_signature : BOOLEAN, variant : Variants] }

DocumentCollectionMethod ==
    /\ written.fn = "document_collection_method"
    /\ ~written.done
    /\ written' = [written EXCEPT
                      !.done = TRUE,
                      !.out = document_collection_method(
                                  written.input.resource_name,
                                  written.input.action_name,
                                  written.input.collection,
                                  written.input.operation,
                                  written.input.include_signature,
                                  written.input.variant)]
    /\ UNCHANGED <<lazy_handler, imported, lazy_last,
                   sessVars, concVars, utilVars, docVars>>

\* document_collection_object(section, collection_model, include_signature)
document_collection_object(collection, include_signature) ==
    (IF include_signature THEN <<StartSphinxPyAttr(collection.name)>> ELSE <<>>)
        \o << IncludeDocString(<<"A collection of ", collection.resource_type,
                                 " resources.">>),
              IncludeDocString(<<"A ", collection.resource_type,
                                 " Collection will include all resources by default, and extreme caution should be taken when performing actions on all resources.">>) >>

\* The model of the batch action called name: its request and what it returns.
BatchAction(name) ==
    [name |-> name, params |-> << <<"Bucket">> >>,
     has_resource |-> FALSE, resource_type |-> None, identifiers |-> <<>>]

\* service_model.operation_model(batch_action_model.request.operation)
BatchOperation(service_name) ==
    [name |-> "DeleteObjects", input_members |-> {"Bucket", "Delete"},
     has_output |-> TRUE, service_name |-> service_name]

\* document_batch_action(section, resource_name, ..., batch_action_model,
\* service_model, collection_model, include_signature) on an empty section
document_batch_action(resource_name, batch_action, collection, operation, include_signature, variant) ==
    document_model_driven_resource_method(
        [method_name |-> batch_action.name,
         operation |-> operation,
         method_description |-> <<operation.name, ".documentation">>,
         example_prefix |->
             <<(IF batch_action.has_resource
                THEN xform_name(batch_action.resource_type) ELSE "response"),
               " = ", ExampleResourceName(operation.service_name, resource_name),
               ".", collection.name, ".", batch_action.name>>,
         include_input |-> <<>>,
         exclude_input |-> Range(get_resource_ignore_params(batch_action.params)),
         include_signature |-> include_signature],
        [has_resource |-> batch_action.has_resource,
         resource_type |-> batch_action.resource_type,
         identifiers |-> batch_action.identifiers], variant)

\* sorted(methods)
SortedMethods(methods) == SelectSeq(MethodOrder, LAMBDA m : m \in methods)

\* The loop of _document_collection over the sorted methods still to do.
RECURSIVE DocumentMethods(_, _, _, _, _, _)
DocumentMethods(doc, todo, resource_name, collection, operation, variant) ==
    IF todo = <<>> THEN doc
    ELSE LET method == Head(todo)
             added  == add_new_section(doc, method)
             body   == IF method \in collection.batch_actions
                       THEN document_batch_action(
                                resource_name, BatchAction(method), collection,
                                BatchOperation(operation.service_name), TRUE, variant)
                       ELSE document_collection_method(
                                resource_name, method, collection, operation,
                                TRUE, variant)
             filled == [added EXCEPT !.subs =
                           [i \in DOMAIN added.subs |->
                               IF added.subs[i].name = method
                               THEN [name |-> method, doc |-> body]
                               ELSE added.subs[i]]]
         IN  DocumentMethods(filled, Tail(todo), resource_name, collection,
                             operation, variant)

\* CollectionDocumenter._document_collection(section, collection) on an empty
\* section; methods are the public methods of the collection object
DocumentCollection_(resource_name, methods, collection, operation, variant) ==
    DocumentMethods(
        [writes |-> document_collection_object(collection, TRUE), subs |-> <<>>],
        SortedMethods(methods), resource_name, collection, operation, variant)

DocumentCollectionInputs ==
    { Pending("_document_collection", i) :
        i \in [resource_name : {"Bucket"}, methods : SUBSET Range(MethodOrder),
               collection : Collections, operation : Operations,
               variant : {"return_last"}] }

DocumentCollection ==
    /\ written.fn = "_document_collection"
    /\ ~written.done
    /\ written' = [written EXCEPT
                      !.done = TRUE,
                      !.out = DocumentCollection_(
                                  written.input.resource_name,
                                  written.input.methods,
                                  written.input.collection,
                                  written.input.operation,
                                  written.input.variant)]
    /\ UNCHANGED <<lazy_handler, imported, lazy_last,
                   sessVars, concVars, utilVars, docVars>>

\* A collection of the resource model together with the public methods of
\* the collection object, getattr(self._resource, collection.name).
CollectionEntries ==
    { [collection |-> [c EXCEPT !.name = n], methods |-> m] :
        c \in { x \in Collections : x.params = <<>> /\ x.identifiers = <<>> },
        n \in {"objects", "parts"},
        m \in { {"all", "delete"},
                {"all", "filter", "limit", "page_size", "pages"} } }

\* self.resource_model.collections: none, one, or two of different names
CollectionLists ==
    { <<>> } \cup { <<e>> : e \in CollectionEntries }
        \cup { p \in { <<e, f>> : e \in CollectionEntries, f \in CollectionEntries } :
                   p[1].collection.name # p[2].collection.name }

\* The loop of document_collections over the collections still to do.
RECURSIVE DocumentEach(_, _, _, _, _)
DocumentEach(doc, todo, resource_name, operation, variant) ==
    IF todo = <<>> THEN doc
    ELSE LET collection == Head(todo).collection
             added  == add_new_section(doc, collection.name)
             body   == DocumentCollection_(resource_name, Head(todo).methods,
                                           collection, operation, variant)
             filled == [added EXCEPT !.subs =
                           [i \in DOMAIN added.subs |->
                               IF added.subs[i].name = collection.name
                               THEN [name |-> collection.name, doc |-> body]
                               ELSE added.subs[i]]]
         IN  DocumentEach(filled, Tail(todo), resource_name, operation, variant)

\* CollectionDocumenter.document_collections(section) on an empty section:
\* the member_map afterwards and the section
document_collections(member_map, resource_name, entries, operation, variant) ==
    [member_map |->
        (member_map \ {e \in member_map : e[1] = "collections"})
            \cup { <<"collections",
                     [i \in DOMAIN entries |-> entries[i].collection.name]>> },
     doc |->
        DocumentEach(
            [writes |-> << [op |-> "add_resource_type_overview",
                            text |-> <<"Collections",
                                       "Collections provide an interface to iterate over and manipulate groups of resources. ",
                                       "guide_collections">>] >>,
             subs |-> <<>>],
            entries, resource_name, operation, variant)]

DocumentCollectionsInputs ==
    { [Pending("document_collections", i) EXCEPT !.member_map = mm] :
        i \in [resource_name : {"Bucket"}, entries : CollectionLists,
               operation : { o \in Operations : o.has_output /\ o.input_members # {} },
               variant : {"return_last"}],
        mm \in { {}, { <<"actions", <<"load">> >> },
                 { <<"collections", <<"old">> >> } } }

DocumentCollections ==
    /\ written.fn = "document_collections"
    /\ ~written.done
    /\ LET r == document_collections(written.member_map,
                                     written.input.resource_name,
                                     written.input.entries,
                                     written.input.operation,
                                     written.input.variant)
       IN  written' = [written EXCEPT !.done = TRUE, !.out = r.doc,
                                      !.member_map = r.member_map]
    /\ UNCHANGED <<lazy_handler, imported, lazy_last,
                   sessVars, concVars, utilVars, docVars>>

DocumentCollectionObject ==
    /\ written.fn = "document_collection_object"
    /\ ~written.done
    /\ written' = [written EXCEPT
                      !.done = TRUE,
                      !.out = [writes |-> document_collection_object(
                                              written.input.collection,
                                              written.input.include_signature),
                               subs |-> <<>>]]
    /\ UNCHANGED <<lazy_handler, imported, lazy_last,
                   sessVars, concVars, utilVars, docVars>>

(***************************************************************************)
(* boto3/docs/attr.py                                                      *)
(***************************************************************************)
\* document_attribute(section, service_name, resource_name, attr_name, ...,
\* attr_model, include_signature): the writes to the section; the last is
\* ResourceShapeDocumenter(...).document_params(section, shape)
document_attribute(service_name, resource_name, attr_name, attr_model, include_signature) ==
    (IF include_signature THEN <<StartSphinxPyAttr(attr_name)>> ELSE <<>>)
        \o << [op |-> "document_params",
               text |-> <<service_name, resource_name, attr_model>>] >>

\* document_identifier(section, resource_name, identifier_model,
\* include_signature); <<resource_name, name>> stands for the text of
\* get_identifier_description(resource_name, name)
document_identifier(resource_name, identifier_model, include_signature) ==
    (IF include_signature THEN <<StartSphinxPyAttr(identifier_model.name)>>
                          ELSE <<>>)
        \o << Write(<<"*(string)* ", <<resource_name, identifier_model.name>> >>) >>

\* document_reference(section, reference_model, include_signature)
document_reference_text_under_if(reference_model, include_signature) ==
    IF include_signature
    THEN << StartSphinxPyAttr(reference_model.name),
            Write(<<"(:py:class:", reference_model.resource_type, ") ">>),
            IncludeDocString(<<"The related ", reference_model.name,
                               " if set, otherwise None.">>) >>
    ELSE <<>>

document_reference(reference_model, include_signature) ==
    (IF include_signature THEN <<StartSphinxPyAttr(reference_model.name)>>
                          ELSE <<>>)
        \o << Write(<<"(:py:class:", reference_model.resource_type, ") ">>),
              IncludeDocString(<<"The related ", reference_model.name,
                                 " if set, otherwise None.">>) >>

AttrInputs ==
    { Pending("document_attribute", i) :
        i \in [service_name : {"s3"}, resource_name : {"Bucket", "Object"},
               attr_name : {"creation_date", "size"},
               attr_model : {"timestamp", "integer"},
               include_signature : BOOLEAN] }
    \cup { Pending("document_identifier", i) :
        i \in [resource_name : {"Bucket", "Object"},
               identifier_model : [name : {"name", "key"}],
               include_signature : BOOLEAN] }
    \cup { Pending("document_reference", i) :
        i \in [reference_model : [name : {"bucket", "object"},
                                  resource_type : {"Bucket", "Object"}],
               include_signature : BOOLEAN] }
    \cup { Pending("document_collection_object", i) :
        i \in [collection : Collections, include_signature : BOOLEAN] }

DocumentAttribute ==
    /\ written.fn = "document_attribute"
    /\ ~written.done
    /\ written' = [written EXCEPT
                      !.done = TRUE,
                      !.out = [writes |-> document_attribute(
                                              written.input.service_name,
                                              written.input.resource_name,
                                              written.input.attr_name,
                                              written.input.attr_model,
                                              written.input.include_signature),
                               subs |-> <<>>]]
    /\ UNCHANGED <<lazy_handler, imported, lazy_last,
                   sessVars, concVars, utilVars, docVars>>

DocumentIdentifier ==
    /\ written.fn = "document_identifier"
    /\ ~written.done
    /\ written' = [written EXCEPT
                      !.done = TRUE,
                      !.out = [writes |-> document_identifier(
                                              written.input.resource_name,
                                              written.input.identifier_model,
                                              written.input.include_signature),
                               subs |-> <<>>]]
    /\ UNCHANGED <<lazy_handler, imported, lazy_last,
                   sessVars, concVars, utilVars, docVars>>

DocumentReference ==
    /\ written.fn = "document_reference"
    /\ ~written.done
    /\ written' = [written EXCEPT
                      !.done = TRUE,
                      !.out = [writes |-> document_reference(
                                              written.input.reference_model,
                                              written.input.include_signature),
                               subs |-> <<>>]]
    /\ UNCHANGED <<lazy_handler, imported, lazy_last,
                   sessVars, concVars, utilVars, docVars>>

WriterInputs ==
    ResourceMethodInputs \cup CollectionMethodInputs
        \cup DocumentCollectionInputs \cup AttrInputs
        \cup DocumentCollectionsInputs

InitWriters ==
    /\ InitSess /\ IdleConc /\ IdleUtils /\ IdleDocs /\ IdleLazy
    /\ written \in WriterInputs

NextWriters ==
    \/ DocumentModelDrivenResourceMethod
    \/ DocumentCollectionMethod
    \/ DocumentCollection
    \/ DocumentCollections
    \/ DocumentCollectionObject
    \/ DocumentAttribute
    \/ DocumentIdentifier
    \/ DocumentReference

SpecWriters == InitWriters /\ [][NextWriters]_vars

(***************************************************************************)
(* Properties of the package-level functions (Spec)                        *)
(***************************************************************************)
LazyOps == ForwardOps \cup {"_get_default_session"}

\* C1 (create-on-first-use): a client(), resource() or _get_default_session()
\* call made while DEFAULT_SESSION is None invokes Session exactly once, with
\* no arguments; when that returns, exactly one Session object is added, it is
\* the one stored in DEFAULT_SESSION and returned, and client()/resource()
\* invoke their method on that same object.
C1_CreateOnFirstUse ==
    [][ (DEFAULT_SESSION = 0 /\ last'.op \in LazyOps) =>
           /\ Len(last'.ctor) = 1
           /\ last'.ctor[1].kwargs = {}
           /\ ~last'.raised =>
                 /\ Len(sessions') = Len(sessions) + 1
                 /\ SubSeq(sessions', 1, Len(sessions)) = sessions
                 /\ sessions'[Len(sessions')] = {}
                 /\ DEFAULT_SESSION' = Len(sessions')
                 /\ last'.ret = DEFAULT_SESSION'
                 /\ last'.op \in ForwardOps =>
                       /\ last'.fwd = DEFAULT_SESSION'
                       /\ last'.method = last'.op ]_vars

C1_Witness ==
    /\ last.op = "client"
    /\ last.pre = 0
    /\ ~last.raised
    /\ DEFAULT_SESSION = 1
    /\ sessions = << {} >>
    /\ last.fwd = 1

\* C2 (cached reuse): a client(), resource() or _get_default_session() call made
\* while DEFAULT_SESSION is set returns that session without invoking Session,
\* leaves DEFAULT_SESSION and the constructed sessions unchanged, and
\* client()/resource() invoke their method on it; two consecutive
\* client()/resource() calls are forwarded to the same session.
C2_CachedReuse ==
    [][ /\ (DEFAULT_SESSION # 0 /\ last'.op \in LazyOps) =>
              /\ last'.ctor = <<>>
              /\ ~last'.raised
              /\ sessions' = sessions
              /\ DEFAULT_SESSION' = DEFAULT_SESSION
              /\ last'.ret = DEFAULT_SESSION
              /\ last'.op \in ForwardOps => last'.fwd = DEFAULT_SESSION
        /\ (last.op \in ForwardOps /\ ~last.raised /\ last'.op \in ForwardOps) =>
              last'.fwd = last.fwd ]_vars

C2_Witness ==
    /\ last.op = "resource"
    /\ last.pre = 2
    /\ last.fwd = 2
    /\ DEFAULT_SESSION = 2
    /\ Len(sessions) = 2

\* C3 (overwrite-on-explicit-setup): a setup_default_session(**kwargs) call
\* invokes Session once with exactly kwargs; when that returns, the new object
\* replaces DEFAULT_SESSION (set before or not) and is the value returned, and a
\* client()/resource() call made right after is forwarded to the new session,
\* not to the one in place before.
C3_OverwriteOnSetup ==
    [][ /\ last'.op = "setup_default_session" =>
              /\ Len(last'.ctor) = 1
              /\ last'.ctor[1].kwargs = last'.args[1]
              /\ ~last'.raised =>
                    /\ Len(sessions') = Len(sessions) + 1
                    /\ SubSeq(sessions', 1, Len(sessions)) = sessions
                    /\ sessions'[Len(sessions')] = last'.args[1]
                    /\ DEFAULT_SESSION' = Len(sessions')
                    /\ DEFAULT_SESSION' # DEFAULT_SESSION
                    /\ last'.ret = DEFAULT_SESSION'
        /\ (last.op = "setup_default_session" /\ ~last.raised
                /\ last'.op \in ForwardOps) =>
              /\ last'.fwd = last.ret
              /\ last'.fwd # last.pre ]_vars

C3_Witness ==
    /\ last.op = "setup_default_session"
    /\ ~last.raised
    /\ last.pre = 1
    /\ last.ret = 2
    /\ DEFAULT_SESSION = 2
    /\ last.args[1] # {}
    /\ sessions[2] = last.args[1]

\* C6 (constructor failure): a call raises exactly when the Session constructor
\* it invoked raised; the constructor was then invoked once only (no retry),
\* no session was added or forwarded to, and DEFAULT_SESSION is what it was
\* before the call, None or an existing session.
C6_CtorFailure ==
    [][ /\ last'.raised <=> (\E i \in DOMAIN last'.ctor : ~last'.ctor[i].ok)
        /\ last'.raised =>
              /\ Len(last'.ctor) = 1
              /\ DEFAULT_SESSION' = DEFAULT_SESSION
              /\ sessions' = sessions
              /\ last'.ret = 0
              /\ last'.fwd = 0 ]_vars

C6_Witness ==
    /\ last.op = "setup_default_session"
    /\ last.raised
    /\ last.pre = 1
    /\ DEFAULT_SESSION = 1
    /\ Len(sessions) = 1

\* C9 (set_stream_logger): a call appends exactly one StreamHandler to the named
\* logger's handlers and keeps those already attached, sets the logger's and
\* the new handler's level to the given level, gives the handler the given
\* format or, for None, the default format, and touches no other logger.
C9_SetStreamLogger ==
    [][ last'.op = "set_stream_logger" =>
           LET name  == last'.args[1]
               level == last'.args[2]
               fs    == last'.args[3]
               new   == loggers'[name].handlers
               n     == Len(loggers[name].handlers)
           IN  /\ Len(new) = n + 1
               /\ SubSeq(new, 1, n) = loggers[name].handlers
               /\ new[n + 1].kind = "StreamHandler"
               /\ new[n + 1].level = level
               /\ new[n + 1].format = (IF fs = None THEN DefaultFormat ELSE fs)
               /\ loggers'[name].level = level
               /\ \A other \in LoggerNames \ {name} :
                     loggers'[other] = loggers[other] ]_vars

\* two calls for "boto3" left two added handlers behind the NullHandler
C9_Witness ==
    /\ last.op = "set_stream_logger"
    /\ last.args[1] = "boto3"
    /\ last.args[3] = None
    /\ Len(loggers["boto3"].handlers) = 3
    /\ loggers["boto3"].handlers[1] = NullHandler
    /\ loggers["boto3"].handlers[2].kind = "StreamHandler"
    /\ loggers["boto3"].handlers[3] = StreamHandler(last.args[2], DefaultFormat)

\* C15 (the default session stays set): in any sequence of the package-level
\* calls a DEFAULT_SESSION that is set is never None afterwards, and it changes
\* only in a setup_default_session call or in the lazy initialization of a
\* client(), resource() or _get_default_session() call that found it None.
C15_NeverUnset ==
    [][ /\ DEFAULT_SESSION # 0 => DEFAULT_SESSION' # 0
        /\ DEFAULT_SESSION' # DEFAULT_SESSION =>
              \/ last'.op = "setup_default_session"
              \/ /\ last'.op \in LazyOps
                 /\ DEFAULT_SESSION = 0
                 /\ Len(last'.ctor) = 1 ]_vars

\* a failed setup, then a logger call, with the second session still in place
C15_Witness ==
    /\ last.op = "set_stream_logger"
    /\ last.pre = 2
    /\ DEFAULT_SESSION = 2
    /\ Len(sessions) = 2
    /\ Len(loggers["boto3"].handlers) = 2

(***************************************************************************)
(* Properties of concurrent callers (SpecConc)                             *)
(***************************************************************************)
\* C8 (no synchronization needed): whenever all concurrent client()/resource()
\* callers that started with DEFAULT_SESSION unset have returned, exactly one
\* Session was constructed and every caller used the session left in
\* DEFAULT_SESSION.
C8_OneSessionForAll ==
    (\A t \in Threads : pc[t] = "done") =>
        /\ Len(sessions) = 1
        /\ \A t \in Threads : frame[t].used = DEFAULT_SESSION

(***************************************************************************)
(* Properties of the utilities (SpecUtils)                                 *)
(***************************************************************************)
\* C4 (duplicate injection): inject_attribute with a name that is already a key
\* of class_attributes raises RuntimeError and leaves the dict as it was: same
\* keys, same values.
C4_InjectDuplicate ==
    [][ (ulast'.op = "inject_attribute"
            /\ ulast'.args[1] \in DOMAIN class_attributes) =>
           /\ ulast'.raised = "RuntimeError"
           /\ DOMAIN class_attributes' = DOMAIN class_attributes
           /\ \A k \in DOMAIN class_attributes :
                 class_attributes'[k] = class_attributes[k] ]_vars

\* a duplicate injection with a different value was refused
C4_Witness ==
    /\ ulast.op = "inject_attribute"
    /\ ulast.raised = "RuntimeError"
    /\ ulast.args[1] \in DOMAIN class_attributes
    /\ class_attributes[ulast.args[1]] # ulast.args[2]

\* C7 (lazy waiter model): constructing a LazyLoadedWaiterModel makes no call to
\* the botocore session; the session's get_waiter_model is called only by
\* get_waiter, once per call, with the service name and API version the object
\* was constructed with and for the waiter name asked for.
C7_LazyWaiterModel ==
    [][ /\ ulast'.op = "LazyLoadedWaiterModel" => bc_calls' = bc_calls
        /\ bc_calls' # bc_calls =>
              /\ ulast'.op = "get_waiter"
              /\ waiter_model.constructed
              /\ bc_calls' = Append(bc_calls,
                                WaiterLoad(waiter_model._service_name,
                                           waiter_model._api_version,
                                           ulast'.args[1])) ]_vars

C7_Witness ==
    /\ ulast.op = "get_waiter"
    /\ waiter_model.constructed
    /\ Len(bc_calls) = 1
    /\ bc_calls[1].service_name = waiter_model._service_name
    /\ bc_calls[1].api_version = waiter_model._api_version
    /\ bc_calls[1].waiter_name = ulast.args[1]

(***************************************************************************)
(* Properties of the documenters (SpecDocs)                                *)
(***************************************************************************)
\* C5 (documenter construction): constructing a documenter for a resource
\* without meta.client fails with an AssertionError on the client, also when
\* the resource model is missing too; with a client but without
\* meta.resource_model it fails with an AssertionError on the model; and a
\* constructed documenter always holds both a client and a resource model.
C5_DocumenterAsserts ==
    documenter.status # "none" =>
        /\ ~resource.client =>
              /\ documenter.status = "AssertionError"
              /\ documenter.failed_at = "meta.client"
        /\ (resource.client /\ ~resource.model) =>
              /\ documenter.status = "AssertionError"
              /\ documenter.failed_at = "meta.resource_model"
        /\ documenter.status = "constructed" =>
              /\ resource.client /\ resource.model
              /\ documenter._client /\ documenter._resource_model

\* both are missing: the client assertion is the one that fails
C5_Witness ==
    /\ documenter.status = "AssertionError"
    /\ ~resource.client
    /\ ~resource.model
    /\ documenter.failed_at = "meta.client"

\* The path the claim assigns to an action name of resource res.
C10_Path(res, action_name) ==
    IF action_name \in {"load", "reload"} /\ res.load
    THEN "document_load_reload_action"
    ELSE IF action_name \in res.modeled_actions
    THEN "document_action"
    ELSE "document_custom_method"

\* C10 (one path per action): after document_actions every public action has one
\* subsection written by exactly one of the three writers: the load/reload
\* writer for 'load'/'reload' when the model has a load definition, else the
\* modeled-action writer when the name is a modeled action, else the
\* custom-method writer.
C10_OnePathPerAction ==
    section # EmptySection =>
        /\ Len(section.subsections) = Cardinality(resource.public_actions)
        /\ \A i \in DOMAIN section.subsections :
              LET s == section.subsections[i] IN
              /\ s.name \in resource.public_actions
              /\ Len(s.calls) = 1
              /\ s.calls[1].fn = C10_Path(resource, s.name)
              /\ s.calls[1].method_name = s.name

\* a modeled action named 'load' documented as load/reload, beside a 'delete'
\* documented as a modeled action and a custom method
C10_Witness ==
    /\ section # EmptySection
    /\ resource.load
    /\ resource.public_actions = ActionNames
    /\ resource.modeled_actions = {"load", "delete"}
    /\ section.subsections[3].name = "load"
    /\ section.subsections[3].calls[1].fn = "document_load_reload_action"
    /\ section.subsections[1].calls[1].fn = "document_action"
    /\ section.subsections[2].calls[1].fn = "document_custom_method"

\* The position of an action name in Python's string order.
C16_Rank(name) == CHOOSE i \in DOMAIN NameOrder : NameOrder[i] = name

\* The value of member_map[key] (key is present).
C16_Get(member_map, key) == (CHOOSE e \in member_map : e[1] = key)[2]

\* C16 (member map and sections agree): after document_actions,
\* member_map['actions'] lists every public action name once, in ascending
\* string order, and the section's subsections are named after that list,
\* one per name and in the same order.
C16_ActionsListed ==
    section # EmptySection =>
        /\ Cardinality({e \in documenter.member_map : e[1] = "actions"}) = 1
        /\ LET names == C16_Get(documenter.member_map, "actions") IN
              /\ {names[i] : i \in DOMAIN names} = resource.public_actions
              /\ Len(names) = Cardinality(resource.public_actions)
              /\ \A i, j \in DOMAIN names :
                    i < j => C16_Rank(names[i]) < C16_Rank(names[j])
              /\ Len(section.subsections) = Len(names)
              /\ \A i \in DOMAIN names : section.subsections[i].name = names[i]

C16_Witness ==
    /\ section # EmptySection
    /\ resource.public_actions = {"reload", "delete", "load"}
    /\ C16_Get(documenter.member_map, "actions") = <<"delete", "load", "reload">>
    /\ Len(section.subsections) = 3
    /\ section.subsections[3].name = "reload"

\* The call that wrote the subsection called name (there is one).
C13_Call(name) ==
    LET i == CHOOSE k \in DOMAIN section.subsections :
                 section.subsections[k].name = name
    IN  section.subsections[i].calls[1]

\* What a load/reload call leaves when its method name and example prefix are
\* blanked.
C13_Rest(call) == [call EXCEPT !.method_name = None, !.example_prefix = <<>>]

\* C13 (load and reload are one method): with a load definition, 'load' and
\* 'reload' are each documented against an operation model without input
\* members, with the example prefix <resource>.<action name> and a description
\* naming the load's client operation and the resource; when both are
\* documented the descriptions are identical and the two calls differ in the
\* method name and the example prefix only.
C13_LoadReloadSame ==
    (section # EmptySection /\ resource.load) =>
        /\ \A a \in {"load", "reload"} \cap resource.public_actions :
              LET c == C13_Call(a)
                  d == c.method_description
                  e == IF resource.name = resource.service_name
                       THEN resource.name ELSE xform_name(resource.name)
              IN  /\ c.fn = "document_load_reload_action"
                  /\ c.method_name = a
                  /\ c.operation_model.input_members = {}
                  /\ c.example_prefix = <<e, ".", a>>
                  /\ \E i \in DOMAIN d : d[i] = xform_name(LoadOperation)
                  /\ \E i \in DOMAIN d : d[i] = resource.name
        /\ {"load", "reload"} \subseteq resource.public_actions =>
              /\ C13_Call("load").method_description
                    = C13_Call("reload").method_description
              /\ C13_Rest(C13_Call("load")) = C13_Rest(C13_Call("reload"))
              /\ C13_Call("load").example_prefix
                    # C13_Call("reload").example_prefix

C13_Witness ==
    /\ section # EmptySection
    /\ resource.load
    /\ resource.name = "Bucket"
    /\ resource.public_actions = {"load", "reload"}
    /\ C13_Call("load").example_prefix = <<"bucket", ".", "load">>
    /\ C13_Call("reload").example_prefix = <<"bucket", ".", "reload">>
    /\ C13_Call("reload").method_description[4] = "head_bucket"

(***************************************************************************)
(* Properties of lazy_call (SpecLazy)                                      *)
(***************************************************************************)
\* The module part and the function part of a dotted name.
C19_Module(name) == SubSeq(name, 1, Len(name) - 1)
C19_Function(name) == name[Len(name)]

\* A dotted name whose module can be imported and has the function.
C19_Found(name) ==
    \/ name[1] = "os" /\ Len(name) = 2 /\ name[2] = "getcwd"
    \/ /\ Len(name) = 3 /\ name[1] = "boto3" /\ name[2] = "utils"
       /\ name[3] \in {"inject_attribute", "lazy_call"}

\* C19 (lazy_call): lazy_call calls import_module never, and returns a handler
\* bound to its keyword arguments unless it raises (a keyword called
\* full_name), which leaves no new handler; each call of the
\* handler of a dotted name calls import_module once, with the part before
\* the last dot, and, when the module is there and has the function named
\* after the last dot, calls that function with the call-time keyword
\* arguments joined with the bound ones, the bound value taken for a key of
\* both, whether the call then returns or raises; the handler raises what the
\* import, the lookup or the call raised.  The bound arguments stay as given.
\* The handler of a name without a dot raises ValueError before importing.
C19_LazyCall ==
    [][ /\ lazy_last'.op = "lazy_call" =>
              /\ imported' = imported
              /\ lazy_last'.raised = None =>
                    /\ lazy_handler'.made
                    /\ lazy_handler'.parent_kwargs = lazy_last'.kwargs
                    /\ "full_name" \notin DOMAIN lazy_handler'.parent_kwargs
              /\ lazy_last'.raised # None => lazy_handler' = lazy_handler
        /\ lazy_last'.op = "handler" =>
              LET name  == lazy_handler.full_name
                  bound == lazy_handler.parent_kwargs
                  given == lazy_last'.kwargs
                  t     == lazy_last'.target
              IN  /\ lazy_handler' = lazy_handler
                  /\ Len(name) >= 2 =>
                        imported' = Append(imported, C19_Module(name))
                  /\ (Len(name) >= 2 /\ C19_Found(name)) =>
                        /\ t.module = C19_Module(name)
                        /\ t.function = C19_Function(name)
                        /\ DOMAIN t.kwargs = DOMAIN given \cup DOMAIN bound
                        /\ \A k \in DOMAIN bound : t.kwargs[k] = bound[k]
                        /\ \A k \in DOMAIN given \ DOMAIN bound :
                              t.kwargs[k] = given[k]
                        /\ lazy_last'.raised \in {None, "TypeError"}
                  /\ (Len(name) >= 2 /\ ~C19_Found(name)) =>
                        /\ t = NoTarget
                        /\ lazy_last'.raised
                              \in {"ModuleNotFoundError", "AttributeError"}
                  /\ Len(name) < 2 =>
                        /\ lazy_last'.raised = "ValueError"
                        /\ t = NoTarget
                        /\ imported' = imported ]_vars

\* the second call of a handler that returns: two imports, the bound "x" beat
\* the given one, and the given "full_name" went through
C19_Witness ==
    /\ lazy_last.op = "handler"
    /\ lazy_last.raised = None
    /\ lazy_handler.full_name = <<"boto3", "utils", "lazy_call">>
    /\ imported = << <<"boto3", "utils">>, <<"boto3", "utils">> >>
    /\ DOMAIN lazy_last.kwargs = {"full_name", "x"}
    /\ DOMAIN lazy_handler.parent_kwargs = {"x"}
    /\ lazy_last.kwargs["x"] = "v1"
    /\ lazy_handler.parent_kwargs["x"] = "v2"
    /\ lazy_last.target.kwargs["x"] = "v2"
    /\ lazy_last.target.kwargs["full_name"] = lazy_last.kwargs["full_name"]

\* a call of the target that raises: the handler raises the same, after the
\* import and with the joined arguments
C19_WitnessRaise ==
    /\ lazy_last.op = "handler"
    /\ lazy_last.raised = "TypeError"
    /\ lazy_handler.full_name = <<"os", "getcwd">>
    /\ lazy_handler.parent_kwargs = [k \in {"x"} |-> "v1"]
    /\ lazy_last.kwargs = <<>>
    /\ lazy_last.target.kwargs = [k \in {"x"} |-> "v1"]
    /\ imported = << <<"os">> >>

(***************************************************************************)
(* Properties of the documenter functions (SpecWriters)                    *)
(***************************************************************************)
\* The subsections of doc called name.
SubsNamed(doc, name) == SelectSeq(doc.subs, LAMBDA sub : sub.name = name)

\* C12 (the return section of a resource method): when the action returns a
\* resource the section ends up with exactly one 'return' subsection, holding
\* only what the resource documenter wrote, none of the underlying
\* documenter's text, and naming the class <service_name>.<resource type>;
\* the other subsections are the underlying documenter's.  When the action
\* returns no resource the section is exactly the underlying documenter's.
C12_ReturnSection ==
    (written.fn = "document_model_driven_resource_method" /\ written.done) =>
        LET in   == written.input
            base == document_model_driven_method(in.args, in.variant)
            rets == SubsNamed(written.out, "return")
        IN  IF in.ram.has_resource
            THEN /\ Len(rets) = 1
                 /\ rets[1].doc.subs = <<>>
                 /\ Len(rets[1].doc.writes) = 5
                 /\ \A i \in DOMAIN rets[1].doc.writes :
                       /\ rets[1].doc.writes[i] # Write(<<":rtype: dict">>)
                       /\ rets[1].doc.writes[i] # Write(<<":returns: None">>)
                 /\ \E i \in DOMAIN rets[1].doc.writes :
                       LET t == rets[1].doc.writes[i].text IN
                       /\ Len(t) >= 2
                       /\ t[1] = ":rtype: "
                       /\ t[Len(t) - (IF Len(t) = 2 THEN 0 ELSE 1)]
                             = <<":py:class:", in.args.operation.service_name, ".",
                                 in.ram.resource_type>>
                 /\ SelectSeq(written.out.subs, LAMBDA sub : sub.name # "return")
                       = SelectSeq(base.subs, LAMBDA sub : sub.name # "return")
            ELSE written.out = base

\* the underlying documenter had written a 'return' section, not the last one
C12_Witness ==
    /\ written.fn = "document_model_driven_resource_method"
    /\ written.done
    /\ written.input.ram.has_resource
    /\ written.input.variant = "return_inside"
    /\ written.input.args.operation.has_output
    /\ Len(SubsNamed(written.out, "return")) = 1
    /\ written.out.subs[4].name = "return"
    /\ written.out.subs[4].doc.writes[2].text
          = <<":rtype: ", <<":py:class:", "s3", ".", "Object">> >>

\* An identifier whose path is set, not empty, and has "[" directly followed by "]".
C17_ListPath(identifier) ==
    /\ identifier.has_path
    /\ identifier.path # <<>>
    /\ \E i \in 1..(Len(identifier.path) - 1) :
          identifier.path[i] = "[" /\ identifier.path[i + 1] = "]"

\* C17 (list of resources): a method returning a resource is documented with
\* the 'list(...)' return type and the 'A list of ... resources' description
\* exactly when some identifier of the returned resource has a non-empty path
\* containing "[]"; otherwise with the single-resource type and description.
C17_ResourceList ==
    (written.fn = "document_model_driven_resource_method" /\ written.done
        /\ written.input.ram.has_resource) =>
        LET ram    == written.input.ram
            w      == SubsNamed(written.out, "return")[1].doc.writes
            class  == <<":py:class:", written.input.args.operation.service_name,
                        ".", ram.resource_type>>
            isList == \E i \in DOMAIN ram.identifiers :
                          C17_ListPath(ram.identifiers[i])
        IN  IF isList
            THEN /\ w[2].text = <<":rtype: ", "list(", class, ")">>
                 /\ w[4].text = <<":returns: ", "A list of ", ram.resource_type,
                                  " resources">>
            ELSE /\ w[2].text = <<":rtype: ", class>>
                 /\ w[4].text = <<":returns: ", ram.resource_type, " resource">>

\* the second identifier makes it a list; the first, with brackets around an
\* index, does not
C17_Witness ==
    /\ written.fn = "document_model_driven_resource_method"
    /\ written.done
    /\ written.input.ram.has_resource
    /\ written.input.ram.identifiers
          = << [has_path |-> TRUE, path |-> <<"B", "[", "0", "]">>],
               [has_path |-> TRUE, path |-> <<"B", "[", "]", ".", "K">>] >>
    /\ SubsNamed(written.out, "return")[1].doc.writes[2].text[2] = "list("

\* The parameters documented in the section: the operation's members kept,
\* and the shapes added.
C18_Documented(doc) == SubsNamed(doc, "request-params")[1].doc.writes[1].text

\* The leftmost fields of the collection's request parameters.
C18_FilledIn(params) ==
    { params[i][1] : i \in { j \in DOMAIN params : params[j][1] # "[0]" } }

\* C18 (inputs of the collection methods): 'all', 'limit' and 'page_size'
\* document no input member of the underlying operation, 'filter' documents
\* all of them but those the resource fills in itself; 'limit' and 'page_size'
\* add exactly one parameter, 'count' of type integer, 'all' and 'filter' none.
C18_CollectionInputs ==
    (written.fn = "document_collection_method" /\ written.done
        /\ written.input.action_name \in {"all", "filter", "limit", "page_size"}) =>
        LET in      == written.input
            kept    == C18_Documented(written.out)[1]
            added   == C18_Documented(written.out)[2]
        IN  /\ in.action_name \in {"all", "limit", "page_size"} => kept = {}
            /\ in.action_name = "filter" =>
                  kept = in.operation.input_members
                            \ C18_FilledIn(in.collection.params)
            /\ in.action_name \in {"limit", "page_size"} =>
                  /\ Len(added) = 1
                  /\ added[1].name = "count"
                  /\ added[1].type_name = "integer"
            /\ in.action_name \in {"all", "filter"} => added = <<>>

\* filter, with one of the two members filled in by the resource
C18_Witness ==
    /\ written.fn = "document_collection_method"
    /\ written.done
    /\ written.input.action_name = "filter"
    /\ written.input.operation.input_members = {"Bucket", "Prefix"}
    /\ written.input.collection.params = << <<"[0]", "Key">>, <<"Bucket">> >>
    /\ C18_Documented(written.out) = << {"Prefix"}, <<>> >>

\* page_size: no member left, count added
C18_WitnessCount ==
    /\ written.fn = "document_collection_method"
    /\ written.done
    /\ written.input.action_name = "page_size"
    /\ written.input.operation.input_members = {"Bucket", "Prefix"}
    /\ C18_Documented(written.out)[1] = {}
    /\ Len(C18_Documented(written.out)[2]) = 1

\* C11 (collection methods without documentation): document_collection_method
\* writes to its section exactly when action_name is one of 'all', 'filter',
\* 'limit', 'page_size', and leaves it as it was for any other name; and
\* _document_collection adds exactly one subsection per public method, in
\* sorted order, the one of a method that is neither a batch action nor one of
\* the four names being empty, the others not.
C11_OnlyFourNames ==
    /\ (written.fn = "document_collection_method" /\ written.done) =>
          IF written.input.action_name \in {"all", "filter", "limit", "page_size"}
          THEN /\ written.out # EmptyDoc
               /\ \E i \in DOMAIN written.out.subs :
                     \E j \in DOMAIN written.out.subs[i].doc.writes :
                        LET t == written.out.subs[i].doc.writes[j].text IN
                        /\ Len(t) = 7
                        /\ t[5] = written.input.collection.name
                        /\ t[7] = written.input.action_name
          ELSE written.out = EmptyDoc
    /\ (written.fn = "_document_collection" /\ written.done) =>
          LET in == written.input IN
          /\ available_sections(written.out)
                = SelectSeq(<<"all", "delete", "filter", "limit", "page_size", "pages">>,
                            LAMBDA m : m \in in.methods)
          /\ \A i \in DOMAIN written.out.subs :
                LET sub == written.out.subs[i] IN
                (sub.doc = EmptyDoc) <=>
                    /\ sub.name \notin in.collection.batch_actions
                    /\ sub.name \notin {"all", "filter", "limit", "page_size"}

\* 'delete' is public but no batch action of this collection, 'pages' is
\* public: both subsections are there and empty, while 'all' is documented
C11_Witness ==
    /\ written.fn = "_document_collection"
    /\ written.done
    /\ written.input.methods = {"all", "delete", "pages"}
    /\ written.input.collection.batch_actions = {}
    /\ available_sections(written.out) = <<"all", "delete", "pages">>
    /\ written.out.subs[1].doc # EmptyDoc
    /\ written.out.subs[2].doc = EmptyDoc
    /\ written.out.subs[3].doc = EmptyDoc

\* The name the signature of the documented attribute carries.
C14_Name ==
    CASE written.fn = "document_attribute" -> written.input.attr_name
      [] written.fn = "document_identifier" -> written.input.identifier_model.name
      [] written.fn = "document_reference" -> written.input.reference_model.name
      [] written.fn = "document_collection_object" -> written.input.collection.name

\* What the same call writes with include_signature set to sig.
C14_WritesWith(sig) ==
    CASE written.fn = "document_attribute" ->
            document_attribute(written.input.service_name,
                written.input.resource_name, written.input.attr_name,
                written.input.attr_model, sig)
      [] written.fn = "document_identifier" ->
            document_identifier(written.input.resource_name,
                written.input.identifier_model, sig)
      [] written.fn = "document_reference" ->
            document_reference(written.input.reference_model, sig)
      [] written.fn = "document_collection_object" ->
            document_collection_object(written.input.collection, sig)

\* C14 (include_signature): document_attribute, document_identifier,
\* document_reference and document_collection_object emit the attribute
\* signature directive, once and first, exactly when include_signature is
\* true; the rest of what they write is not empty, holds no directive, and is
\* the same whether include_signature is true or false.
C14_SignatureOnly ==
    (written.fn \in {"document_attribute", "document_identifier",
                     "document_reference", "document_collection_object"}
        /\ written.done) =>
        LET w    == written.out.writes
            sig  == written.input.include_signature
            text == SelectSeq(w, LAMBDA x : x.op # "start_sphinx_py_attr")
        IN  /\ Len(w) - Len(text) = (IF sig THEN 1 ELSE 0)
            /\ sig => w[1] = [op |-> "start_sphinx_py_attr", text |-> <<C14_Name>>]
            /\ text # <<>>
            /\ text = (IF sig THEN Tail(w) ELSE w)
            /\ text = SelectSeq(C14_WritesWith(~sig),
                                LAMBDA x : x.op # "start_sphinx_py_attr")

\* a reference documented without its signature: the type and the text only
C14_Witness ==
    /\ written.fn = "document_reference"
    /\ written.done
    /\ ~written.input.include_signature
    /\ Len(written.out.writes) = 2
    /\ written.out.writes[1].op = "write"
    /\ written.out.writes[2].op = "include_doc_string"
====
